---- MODULE Spec2Model ----
(***************************************************************************)
(* Energy-management sessions of an electric truck (DAPOM).                *)
(*                                                                         *)
(* The model covers the session segmentation (utils.py), the per-session   *)
(* linear programme (build_model.py), the session runners (analysis.py     *)
(* run_sessions, main.py run_all_sessions) and the four parameter sweeps   *)
(* (the four experiment functions of analysis.py).                         *)
(*                                                                         *)
(* Conventions.  A pandas Series is a sequence; Python position i is       *)
(* element i+1.  A DataFrame is a function from the names of the columns   *)
(* it has to sequences of equal length.  A float that can be not-a-number  *)
(* is the empty tuple (nan) or a one-element tuple <<v>>.  A quotient is   *)
(* kept as the pair of its operands.  Energy quantities are integers: the  *)
(* programme is a network flow, so its optimum over the reals is attained  *)
(* at an integer point whenever the data are integers.                     *)
(***************************************************************************)
EXTENDS Integers, Sequences, FiniteSets, TLC

\* ------------------------------------------------------------------ bounds
MaxLen == 3        \* longest dataset (time steps)
MaxSweep == 2      \* longest sweep list
MaxQ == 2          \* largest power / capacity / load value tried

\* ------------------------------------------------------- program constants
OPTIMAL == 2                     \* model.Status == 2
current_capacity_kW == 1500      \* experiment_solar_capacity default
cost_per_kW == 1250              \* experiment_solar_capacity default

VARIABLES
    entry,            \* the function under execution
    data,             \* the dataset argument
    base_params,      \* the base_params argument of a sweep
    values,           \* the sweep list (multipliers, qg_values, qb_values, targets)
    pc,               \* position: "sweep", "loop", "done", "raised"
    err,              \* the exception that ended the run, "" if none
    k,                \* position in the sweep list (1-based), 0 outside a sweep's loop
    params,           \* parameters of the current run_sessions call
    run_data,         \* data of the current run_sessions / run_all_sessions call
    departures,       \* local of run_sessions / run_all_sessions
    di,               \* position in departures (1-based)
    start_session,    \* local of run_sessions / run_all_sessions
    total_cost,       \* local of run_sessions
    total_gamma,      \* local of run_sessions
    session_metrics,  \* local of run_sessions; all_results in run_all_sessions
    session_data,     \* the slice last handed to build_model, <<>> before the first
    solution,         \* the solver's answer for that slice, <<>> before the first
    results,          \* rows of the current sweep
    returns           \* values returned so far by run_sessions, in call order

vars == <<entry, data, base_params, values, pc, err, k, params, run_data,
          departures, di, start_session, total_cost, total_gamma,
          session_metrics, session_data, solution, results, returns>>

\* ----------------------------------------------------------------- helpers
Max(a, b) == IF a >= b THEN a ELSE b

Range(s) == {s[i] : i \in 1..Len(s)}

RECURSIVE SumSeq(_)
SumSeq(s) == IF s = <<>> THEN 0 ELSE s[1] + SumSeq(Tail(s))

SeqsUpTo(S, lo, hi) == UNION {[1..n -> S] : n \in lo..hi}

\* math.nan and math.isnan
nan == <<>>
Num(v) == <<v>>
isnan(f) == f = nan

\* float addition: nan is absorbing
FAdd(f, g) == IF isnan(f) \/ isnan(g) THEN nan ELSE Num(f[1] + g[1])

\* a / b for b # 0, kept as its operands; a may be a float
Quot(a, b) == [num |-> a, den |-> b]

\* q1 <= q2 for quotients of numbers with positive denominators
QuotLeq(q1, q2) == q1.num[1] * q2.den <= q2.num[1] * q1.den

\* the columns of the input file
TRUCK == "Truck"
SOLAR == "Solar_production_kWh"
LOAD == "Energy_consumption_kWh"
PRICE == "Price_per_kWh"

\* series.iloc[i]
iloc(s, i) == s[i + 1]

\* data.iloc[a:b] for 0 <= a <= b <= len(data), every column sliced alike
iloc_slice(df, a, b) == [c \in DOMAIN df |-> SubSeq(df[c], a + 1, b)]

\* len(data): rows of a DataFrame with at least one column
NRows(df) == Len(df[CHOOSE c \in DOMAIN df : TRUE])

\* ------------------------------------------------------ utils.py
RECURSIVE departures_from_arrival(_, _)
departures_from_arrival(c, i) ==
    IF i >= Len(c) THEN <<>>
    ELSE (IF iloc(c, i - 1) = 1 /\ iloc(c, i) = 0 THEN <<i>> ELSE <<>>)
         \o departures_from_arrival(c, i + 1)

\* the loop of get_departure_times from position i on
RECURSIVE departures_from(_, _)
departures_from(c, i) ==
    IF i >= Len(c) THEN <<>>
    ELSE (IF iloc(c, i - 1) = 1 /\ iloc(c, i) = 0 THEN <<i - 1>> ELSE <<>>)
         \o departures_from(c, i + 1)

get_departure_times_skip_tail(c) == departures_from(c, 1)

\* get_departure_times(truck_availability), for a non-empty series
get_departure_times(c) ==
    departures_from(c, 1)
    \o (IF iloc(c, Len(c) - 1) = 1 THEN <<Len(c) - 1>> ELSE <<>>)

\* ------------------------------------------------------ build_model.py
\* v_target is a fraction num/den of Xmax; params["v_target"] * params["Xmax"]
\* for parameters whose product is a whole number of kWh
target_energy(parameters) ==
    (parameters.v_target.num * parameters.Xmax) \div parameters.v_target.den

get_default_parameters ==
    [Xmax |-> 400, Qb_max |-> 100, Qg_max |-> 535, kappa |-> 1000,
     v_target |-> [num |-> 4, den |-> 5], X0 |-> 0]

required_columns == <<TRUCK, SOLAR, LOAD, PRICE>>

\* validate_data(data): the first required column that is missing, "" if none
\* (a name returned here is the ValueError the function raises)
validate_data(df) ==
    LET missing == {i \in 1..Len(required_columns) : required_columns[i] \notin DOMAIN df}
    IN  IF missing = {} THEN ""
        ELSE required_columns[CHOOSE i \in missing : \A j \in missing : i <= j]

\* build_model(data, parameters) after validation: the data and parameters the
\* variables, constraints and objective are built from
build_model(df, parameters) ==
    [T |-> NRows(df), truck |-> df[TRUCK], solar |-> df[SOLAR],
     load |-> df[LOAD], price |-> df[PRICE], params |-> parameters]

var_bounds_g_sign(m, t, bt, xt, gt, at) ==
    /\ -m.params.Qb_max <= bt /\ bt <= m.params.Qb_max
    /\ 0 <= xt
    /\ m.params.Qg_max <= gt /\ gt <= m.params.Qg_max
    /\ 0 <= at /\ at <= m.solar[t]

\* create_decision_variables: the bounds of b[t], x[t], g[t], a[t]
var_bounds(m, t, bt, xt, gt, at) ==
    /\ -m.params.Qb_max <= bt /\ bt <= m.params.Qb_max
    /\ 0 <= xt
    /\ -m.params.Qg_max <= gt /\ gt <= m.params.Qg_max
    /\ 0 <= at /\ at <= m.solar[t]

\* add_constraints 1: charge_limit_t and discharge_limit_t
charge_limits(m, t, bt) ==
    /\ bt <= m.params.Qb_max * m.truck[t]
    /\ bt >= -m.params.Qb_max * m.truck[t]

soc_rhs_no_reset(m, t, xprev, bt) ==
    IF t = 1 THEN m.params.X0 + bt * m.truck[1] ELSE xprev + bt

\* add_constraints 2: the value soc_start, soc_dyn_t or soc_reset_t gives x[t]
\* (t = 1 is Python's t = 0; xprev is x[t-1])
soc_rhs(m, t, xprev, bt) ==
    IF t = 1 THEN m.params.X0 + bt * m.truck[1]
    ELSE IF m.truck[t] = 1 THEN xprev + bt
    ELSE 0

\* add_constraints 3: curtail_t
curtail_limit(m, t, at) == at <= m.solar[t]

\* add_constraints 4: the value energy_balance_t gives g[t]
balance_g(m, t, bt, at) == m.load[t] + bt + at - m.solar[t]

\* add_constraints 5: soc_target
soc_target(m, xlast, gamma) ==
    xlast >= target_energy(m.params) - gamma

\* the assignments (b, x, g, a) of steps 1..t that satisfy every bound and
\* every constraint of those steps
RECURSIVE feasible_upto(_, _)
feasible_upto(m, t) ==
    IF t = 0 THEN {[b |-> <<>>, x |-> <<>>, g |-> <<>>, a |-> <<>>]}
    ELSE UNION {
        {[b |-> Append(p.b, bt),
          x |-> Append(p.x, soc_rhs(m, t, IF t = 1 THEN 0 ELSE p.x[t - 1], bt)),
          g |-> Append(p.g, balance_g(m, t, bt, at)),
          a |-> Append(p.a, at)] :
            <<bt, at>> \in
              {ba \in (-m.params.Qb_max .. m.params.Qb_max) \X (0 .. m.solar[t]) :
                 /\ var_bounds(m, t, ba[1],
                               soc_rhs(m, t, IF t = 1 THEN 0 ELSE p.x[t - 1], ba[1]),
                               balance_g(m, t, ba[1], ba[2]), ba[2])
                 /\ charge_limits(m, t, ba[1])
                 /\ curtail_limit(m, t, ba[2])}}
        : p \in feasible_upto(m, t - 1)}

\* gamma has lb = 0 and no upper bound; a larger gamma than the whole target
\* only adds kappa * gamma, so the search stops there
gamma_range(m) == 0 .. Max(0, target_energy(m.params))

\* every point of the model: all bounds and all constraints hold
feasible_points(m) ==
    {[b |-> p.b, x |-> p.x, g |-> p.g, a |-> p.a, gamma |-> gm] :
        <<p, gm>> \in {pg \in feasible_upto(m, m.T) \X gamma_range(m) :
                         soc_target(m, pg[1].x[m.T], pg[2])}}

\* set_objective: sum of price[t] * g[t] plus kappa * gamma, minimised
objective(m, p) ==
    SumSeq([t \in 1..m.T |-> m.price[t] * p.g[t]]) + m.params.kappa * p.gamma

\* model.optimize(): what the solver can answer, as far as the callers read it
\* (model.Status, model.ObjVal, gamma.X).  With a feasible point the status is
\* optimal, ObjVal the least objective and gamma that of a point attaining
\* it; without one the status is 3 (infeasible).  On any model the solve call may
\* instead raise GurobiError (no licence, a crash).
optimize(m) ==
    LET F == feasible_points(m)
        objvals == {objective(m, p) : p \in F}
        best == CHOOSE v \in objvals : \A w \in objvals : v <= w
    IN  (IF F = {}
         THEN {[raised |-> FALSE, Status |-> 3, ObjVal |-> 0, gamma |-> 0]}
         ELSE {[raised |-> FALSE, Status |-> OPTIMAL, ObjVal |-> best, gamma |-> gm] :
                  gm \in {q.gamma : q \in {p \in F : objective(m, p) = best}}})
        \cup {[raised |-> TRUE, Status |-> 1, ObjVal |-> 0, gamma |-> 0]}

\* ------------------------------------------------------ analysis.py, main.py
RUN_ALL == "run_all_sessions"
SOLAR_EXP == "experiment_solar_capacity"
GRID_EXP == "experiment_grid_capacity"
TRUCK_EXP == "experiment_truck_charge_power"
SOC_EXP == "experiment_soc_target"

RunLocals == <<departures, di, start_session, total_cost, total_gamma, session_metrics>>

\* an exception leaves the function: nothing is returned
Raise(e) == pc' = "raised" /\ err' = e

sweep_assign_alias(base, key, v) ==
    [params |-> [base EXCEPT ![key] = v], base |-> [base EXCEPT ![key] = v]]

\* params = copy.deepcopy(base_params); params[key] = v
\* gives the local parameters and leaves the caller's object as it was
sweep_assign(base, key, v) ==
    [params |-> [base EXCEPT ![key] = v], base |-> base]

\* session_data = data.copy(); session_data[SOLAR] = data[SOLAR] * m
\* gives the scaled copy and leaves the caller's table as it was
solar_scale(df, m) ==
    [session_data |-> [df EXCEPT ![SOLAR] = [t \in 1..Len(df[SOLAR]) |-> df[SOLAR][t] * m]],
     data |-> df]

accumulate_nan(total, v) == FAdd(total, v)

\* total += v if not math.isnan(v) else 0.0
accumulate(total, v) == FAdd(total, IF ~isnan(v) THEN v ELSE Num(0))

next_start_same(dep) == dep

\* start_session = dep + 1
next_start(dep) == dep + 1

\* max(1, session_count)
session_divisor(count) == Max(1, count)

\* run_sessions up to its loop: departures and the zeroed totals
enter_run_sessions(df, parameters) ==
    /\ run_data' = df
    /\ params' = parameters
    /\ IF TRUCK \in DOMAIN df
       THEN /\ departures' = get_departure_times(df[TRUCK])
            /\ di' = 1
            /\ start_session' = 0
            /\ total_cost' = Num(0)
            /\ total_gamma' = Num(0)
            /\ session_metrics' = <<>>
            /\ pc' = "loop"
            /\ err' = err
       ELSE /\ Raise("KeyError")
            /\ UNCHANGED RunLocals
    /\ UNCHANGED <<session_data, solution>>

\* what run_sessions returns once its loop is exhausted
run_sessions_result ==
    [total_cost |-> total_cost, total_gamma |-> total_gamma,
     session_metrics |-> session_metrics]

\* one iteration of "for dep in departures" in run_sessions
SessionStep ==
    /\ entry # RUN_ALL
    /\ pc = "loop"
    /\ di <= Len(departures)
    /\ LET dep == departures[di]
           sd == iloc_slice(run_data, start_session, dep + 1)
       IN  /\ session_data' = sd
           /\ IF validate_data(sd) # ""
              THEN /\ Raise("ValueError")
                   /\ UNCHANGED <<solution, RunLocals>>
              ELSE \E res \in optimize(build_model(sd, params)) :
                     /\ solution' = res
                     /\ IF res.raised
                        THEN /\ Raise("GurobiError")
                             /\ UNCHANGED RunLocals
                        ELSE LET objval == IF res.Status = OPTIMAL
                                           THEN Num(res.ObjVal) ELSE nan
                                 gamma_val == IF res.Status = OPTIMAL
                                              THEN Num(res.gamma) ELSE nan
                             IN  /\ total_cost' = accumulate(total_cost, objval)
                                 /\ total_gamma' = accumulate(total_gamma, gamma_val)
                                 /\ session_metrics' = Append(session_metrics,
                                        [session_start |-> start_session,
                                         session_end |-> dep,
                                         objval |-> objval,
                                         gamma |-> gamma_val])
                                 /\ start_session' = next_start(dep)
                                 /\ di' = di + 1
                                 /\ UNCHANGED <<departures, pc, err>>
    /\ UNCHANGED <<entry, data, base_params, values, k, params, run_data,
                   results, returns>>

\* ---- experiment_solar_capacity
SolarPoint ==
    /\ entry = SOLAR_EXP
    /\ pc = "sweep"
    /\ k <= Len(values)
    /\ IF SOLAR \in DOMAIN data
       THEN LET r == solar_scale(data, values[k])
            IN  /\ data' = r.data
                /\ enter_run_sessions(r.session_data, base_params)
       ELSE /\ Raise("KeyError")
            /\ UNCHANGED <<data, run_data, params, RunLocals, session_data, solution>>
    /\ UNCHANGED <<entry, base_params, values, k, results, returns>>

SolarRow ==
    /\ entry = SOLAR_EXP
    /\ pc = "loop"
    /\ di > Len(departures)
    /\ LET res == run_sessions_result
           m == values[k]
           added_kW == Max(0, (m - 1) * current_capacity_kW)
           install_cost == added_kW * cost_per_kW
       IN  /\ returns' = Append(returns, res)
           /\ results' = Append(results,
                  [multiplier |-> m,
                   operational_cost |-> res.total_cost,
                   install_cost |-> install_cost,
                   net_cost |-> FAdd(res.total_cost, Num(install_cost))])
    /\ k' = k + 1
    /\ pc' = "sweep"
    /\ UNCHANGED <<entry, data, base_params, values, err, params, run_data,
                   RunLocals, session_data, solution>>

\* ---- experiment_grid_capacity
GridPoint ==
    /\ entry = GRID_EXP
    /\ pc = "sweep"
    /\ k <= Len(values)
    /\ LET r == sweep_assign(base_params, "Qg_max", values[k])
       IN  /\ base_params' = r.base
           /\ enter_run_sessions(data, r.params)
    /\ UNCHANGED <<entry, data, values, k, results, returns>>

GridRow ==
    /\ entry = GRID_EXP
    /\ pc = "loop"
    /\ di > Len(departures)
    /\ LET res == run_sessions_result
           session_count == Len(res.session_metrics)
           target == params.v_target.num * params.Xmax
       IN  /\ returns' = Append(returns, res)
           /\ IF target = 0
              THEN /\ Raise("ZeroDivisionError")
                   /\ UNCHANGED <<results, k>>
              ELSE /\ results' = Append(results,
                         [Qg_max |-> values[k],
                          avg_gamma_kWh |->
                              Quot(res.total_gamma, session_divisor(session_count)),
                          avg_miss_fraction |->
                              Quot(res.total_gamma,
                                   session_divisor(session_count) * target_energy(params)),
                          avg_cost_per_session |->
                              Quot(res.total_cost, session_divisor(session_count))])
                   /\ k' = k + 1
                   /\ pc' = "sweep"
                   /\ err' = err
    /\ UNCHANGED <<entry, data, base_params, values, params, run_data,
                   RunLocals, session_data, solution>>

\* ---- experiment_truck_charge_power
TruckPoint ==
    /\ entry = TRUCK_EXP
    /\ pc = "sweep"
    /\ k <= Len(values)
    /\ LET r == sweep_assign(base_params, "Qb_max", values[k])
       IN  /\ base_params' = r.base
           /\ enter_run_sessions(data, r.params)
    /\ UNCHANGED <<entry, data, values, k, results, returns>>

TruckRow ==
    /\ entry = TRUCK_EXP
    /\ pc = "loop"
    /\ di > Len(departures)
    /\ LET res == run_sessions_result
           session_count == session_divisor(Len(res.session_metrics))
       IN  /\ returns' = Append(returns, res)
           /\ results' = Append(results,
                  [Qb_max |-> values[k],
                   total_cost |-> res.total_cost,
                   avg_cost_per_session |-> Quot(res.total_cost, session_count)])
    /\ k' = k + 1
    /\ pc' = "sweep"
    /\ UNCHANGED <<entry, data, base_params, values, err, params, run_data,
                   RunLocals, session_data, solution>>

\* ---- experiment_soc_target
SocPoint ==
    /\ entry = SOC_EXP
    /\ pc = "sweep"
    /\ k <= Len(values)
    /\ LET r == sweep_assign(base_params, "v_target", values[k])
       IN  /\ base_params' = r.base
           /\ enter_run_sessions(data, r.params)
    /\ UNCHANGED <<entry, data, values, k, results, returns>>

SocRow ==
    /\ entry = SOC_EXP
    /\ pc = "loop"
    /\ di > Len(departures)
    /\ LET res == run_sessions_result
           n == session_divisor(Len(res.session_metrics))
       IN  /\ returns' = Append(returns, res)
           /\ results' = Append(results,
                  [v_target |-> values[k],
                   total_cost |-> res.total_cost,
                   avg_gamma_kWh |-> Quot(res.total_gamma, n),
                   avg_cost_per_session |-> Quot(res.total_cost, n)])
    /\ k' = k + 1
    /\ pc' = "sweep"
    /\ UNCHANGED <<entry, data, base_params, values, err, params, run_data,
                   RunLocals, session_data, solution>>

\* the sweep list is exhausted: the rows become the DataFrame that is plotted
\* and returned
SweepReturn ==
    /\ entry # RUN_ALL
    /\ pc = "sweep"
    /\ k > Len(values)
    /\ pc' = "done"
    /\ UNCHANGED <<entry, data, base_params, values, err, k, params, run_data,
                   RunLocals, session_data, solution, results, returns>>

\* ---- main.py run_all_sessions
RunAllCall ==
    /\ entry = RUN_ALL
    /\ pc = "call"
    /\ run_data' = data
    /\ IF TRUCK \in DOMAIN data
       THEN /\ departures' = get_departure_times(data[TRUCK])
            /\ session_metrics' = <<>>
            /\ start_session' = 0
            /\ di' = 1
            /\ pc' = "loop"
            /\ UNCHANGED <<err, total_cost, total_gamma>>
       ELSE /\ Raise("KeyError")
            /\ UNCHANGED RunLocals
    /\ UNCHANGED <<entry, data, base_params, values, k, params, session_data,
                   solution, results, returns>>

\* one iteration of "for time_dep in departures": optimize_session builds the
\* model with the default parameters and solves it.  The solved model is kept
\* in the result and never read, so only the solver's status is modelled.
AllSessionsStep ==
    /\ entry = RUN_ALL
    /\ pc = "loop"
    /\ di <= Len(departures)
    /\ LET time_dep == departures[di]
           sd == iloc_slice(run_data, start_session, time_dep + 1)
       IN  /\ session_data' = sd
           /\ params' = get_default_parameters
           /\ IF validate_data(sd) # ""
              THEN /\ Raise("ValueError")
                   /\ UNCHANGED <<solution, RunLocals>>
              ELSE \E raised \in BOOLEAN, status \in {OPTIMAL, 3, 9} :
                     /\ solution' = [raised |-> raised, Status |-> status]
                     /\ IF raised
                        THEN /\ Raise("GurobiError")
                             /\ UNCHANGED RunLocals
                        ELSE /\ session_metrics' = Append(session_metrics,
                                    [session_start |-> start_session,
                                     session_end |-> time_dep])
                             /\ start_session' = next_start(time_dep)
                             /\ di' = di + 1
                             /\ UNCHANGED <<departures, total_cost, total_gamma, pc, err>>
    /\ UNCHANGED <<entry, data, base_params, values, k, run_data, results, returns>>

RunAllReturn ==
    /\ entry = RUN_ALL
    /\ pc = "loop"
    /\ di > Len(departures)
    /\ pc' = "done"
    /\ UNCHANGED <<entry, data, base_params, values, err, k, params, run_data,
                   RunLocals, session_data, solution, results, returns>>

\* ------------------------------------------------------ inputs
ConstSeq(n, v) == [t \in 1..n |-> v]

AllColumns == {TRUCK, SOLAR, LOAD, PRICE}

\* a table of the given series, restricted to the columns cols
Table(truck, solar, load, price, cols) ==
    [c \in cols |->
        CASE c = TRUCK -> truck
          [] c = SOLAR -> solar
          [] c = LOAD  -> load
          [] c = PRICE -> price]

TruckSeries == SeqsUpTo({0, 1}, 1, MaxLen)

Fraction(n, d) == [num |-> n, den |-> d]

SweepValues(e) ==
    CASE e = SOLAR_EXP -> {0, 2}
      [] e = GRID_EXP  -> {1, MaxQ}
      [] e = TRUCK_EXP -> {1, MaxQ}
      [] e = SOC_EXP   -> {Fraction(0, 1), Fraction(1, 1)}
      [] e = RUN_ALL   -> {}

SweepLists(e) ==
    IF e = RUN_ALL THEN {<<>>} ELSE SeqsUpTo(SweepValues(e), 1, MaxSweep)

InitLocals ==
    /\ err = ""
    /\ k = 1
    /\ params = base_params
    /\ run_data = data
    /\ departures = <<>>
    /\ di = 1
    /\ start_session = 0
    /\ total_cost = Num(0)
    /\ total_gamma = Num(0)
    /\ session_metrics = <<>>
    /\ session_data = <<>>
    /\ solution = <<>>
    /\ results = <<>>
    /\ returns = <<>>

\* every entry point, any connectivity, a load that is nothing or more than
\* the grid can carry at each step, tables complete or missing one column
Init ==
    /\ entry \in {RUN_ALL, SOLAR_EXP, GRID_EXP, TRUCK_EXP, SOC_EXP}
    /\ values \in SweepLists(entry)
    /\ pc = IF entry = RUN_ALL THEN "call" ELSE "sweep"
    /\ data \in UNION {
         {Table(c, ConstSeq(Len(c), 1), l, ConstSeq(Len(c), 1), cols) :
             l \in [1..Len(c) -> {0, MaxQ + 1}],
             cols \in {AllColumns} \cup {AllColumns \ {x} : x \in AllColumns}}
         : c \in TruckSeries}
    /\ base_params \in {[Xmax |-> MaxQ, Qb_max |-> 1, Qg_max |-> 1, kappa |-> 1,
                         v_target |-> v, X0 |-> 0] :
                            v \in {Fraction(0, 1), Fraction(1, 1)}}
    /\ InitLocals

Next ==
    \/ SessionStep
    \/ SolarPoint \/ SolarRow
    \/ GridPoint \/ GridRow
    \/ TruckPoint \/ TruckRow
    \/ SocPoint \/ SocRow
    \/ SweepReturn
    \/ RunAllCall \/ AllSessionsStep \/ RunAllReturn

Spec == Init /\ [][Next]_vars

\* the grid-capacity sweep over two capacities on complete tables with varied
\* solar, load and price levels (below and above the penalty kappa), charger
\* ratings and initial charge
InitLP ==
    /\ entry = GRID_EXP
    /\ values \in [1..2 -> SweepValues(entry)]
    /\ pc = "sweep"
    /\ data \in {Table(c, ConstSeq(Len(c), s), ConstSeq(Len(c), l),
                          ConstSeq(Len(c), p), AllColumns) :
                    c \in TruckSeries, s \in 0..1, l \in {0, MaxQ}, p \in {1, 3}}
    /\ base_params \in {[Xmax |-> MaxQ, Qb_max |-> qb, Qg_max |-> 1, kappa |-> 2,
                         v_target |-> Fraction(1, 1), X0 |-> x0] :
                            qb \in {1, 2}, x0 \in 0..1}
    /\ InitLocals

NextLP == SessionStep \/ GridPoint \/ GridRow \/ SweepReturn

SpecLP == InitLP /\ [][NextLP]_vars

\* ------------------------------------------------------ properties
\* the departures have been computed from run_data and are in scope
InLoop == pc = "loop"

\* the positions at which the connectivity c changes from 1 to 0
Drops(c) == {i \in 0..(Len(c) - 2) : iloc(c, i) = 1 /\ iloc(c, i + 1) = 0}

\* C1: get_departure_times returns, in increasing order, exactly the positions
\* i with c[i] = 1 and c[i+1] = 0, and the last position if and only if the
\* series ends connected; nothing else.
C1_DepartureTimes ==
    InLoop =>
        LET c == run_data[TRUCK]
            last == Len(c) - 1
        IN  /\ \A i \in 1..(Len(departures) - 1) : departures[i] < departures[i + 1]
            /\ Range(departures) =
                   Drops(c) \cup (IF iloc(c, last) = 1 THEN {last} ELSE {})
            /\ (c = <<1, 1, 1>> => departures = <<2>>)
            /\ (c = <<0, 0, 0>> => departures = <<>>)
            /\ (c = <<1>> => departures = <<0>>)
            /\ (c = <<1, 1, 0>> => departures = <<1>>)

\* a series with a drop in the middle and a connected tail has been segmented
C1_Witness ==
    /\ InLoop
    /\ run_data[TRUCK] = <<1, 0, 1>>
    /\ departures = <<0, 2>>

\* the slice last handed to build_model has a connectivity column
HasSlice == session_data # <<>> /\ TRUCK \in DOMAIN session_data

\* C2 as stated: every step of every slice handed to build_model is connected.
C2_AllConnected ==
    HasSlice => \A t \in 1..Len(session_data[TRUCK]) : session_data[TRUCK][t] = 1

\* s is a run of disconnected steps (possibly none) followed by a non-empty
\* run of connected steps
GapThenRun(s) ==
    \E m \in 1..Len(s) :
        /\ \A t \in 1..(m - 1) : s[t] = 0
        /\ \A t \in m..Len(s) : s[t] = 1

\* C2 amended: every slice handed to build_model ends at a connected step and
\* is a (possibly empty) disconnected gap followed by a maximal run of
\* connected steps: the step before the session, if any, is connected (it is
\* the previous departure) and the step after it, if any, is disconnected.
C2_GapThenRun ==
    /\ HasSlice => GapThenRun(session_data[TRUCK])
    /\ InLoop =>
         LET c == run_data[TRUCK]
         IN  \A j \in 1..Len(session_metrics) :
               LET a == session_metrics[j].session_start
                   e == session_metrics[j].session_end
               IN  /\ GapThenRun(SubSeq(c, a + 1, e + 1))
                   /\ (a > 0 => iloc(c, a - 1) = 1)
                   /\ (e < Len(c) - 1 => iloc(c, e + 1) = 0)

\* a session whose slice starts with two disconnected steps has been recorded
C2_Witness ==
    /\ InLoop
    /\ session_data # <<>>
    /\ TRUCK \in DOMAIN session_data
    /\ session_data[TRUCK] = <<0, 0, 1>>
    /\ Len(session_metrics) = 1

\* the positions of session j
SessionRange(j) ==
    session_metrics[j].session_start .. session_metrics[j].session_end

\* C3: the sessions are pairwise disjoint ranges with start <= end, the first
\* starts at 0, each later one starts at the previous departure + 1, and once
\* all are formed every position in no session is disconnected (every
\* connected position lies in exactly one session).
C3_Partition ==
    InLoop =>
        LET c == run_data[TRUCK]
            n == Len(session_metrics)
        IN  /\ \A j \in 1..n :
                  session_metrics[j].session_start <= session_metrics[j].session_end
            /\ (n >= 1 => session_metrics[1].session_start = 0)
            /\ \A j \in 2..n :
                  /\ session_metrics[j].session_start = departures[j - 1] + 1
                  /\ session_metrics[j - 1].session_end = departures[j - 1]
            /\ \A i, j \in 1..n : i # j => SessionRange(i) \cap SessionRange(j) = {}
            /\ (di > Len(departures) =>
                  \A t \in 0..(Len(c) - 1) :
                      /\ (\A j \in 1..n : t \notin SessionRange(j)) => iloc(c, t) = 0
                      /\ iloc(c, t) = 1 =>
                            Cardinality({j \in 1..n : t \in SessionRange(j)}) = 1)

\* two sessions have been formed and the loop is exhausted
C3_Witness ==
    /\ InLoop
    /\ di > Len(departures)
    /\ Len(session_metrics) = 2
    /\ session_metrics[2].session_start = session_metrics[1].session_end + 1

\* the numbers among the floats of a sequence, summed
RECURSIVE SumNumbers(_)
SumNumbers(fs) ==
    IF fs = <<>> THEN 0
    ELSE (IF isnan(fs[1]) THEN 0 ELSE fs[1][1]) + SumNumbers(Tail(fs))

\* C4: in run_sessions a session whose status is not optimal adds zero to both
\* totals and is recorded with nan objval and gamma; the totals equal the sums
\* over the optimal sessions, are never nan, and session_metrics has one entry
\* per session in session order.
C4_NonOptimalAddsZero ==
    entry # RUN_ALL =>
        LET n == Len(session_metrics)
        IN  /\ ~isnan(total_cost) /\ ~isnan(total_gamma)
            /\ total_cost =
                   Num(SumNumbers([j \in 1..n |-> session_metrics[j].objval]))
            /\ total_gamma =
                   Num(SumNumbers([j \in 1..n |-> session_metrics[j].gamma]))
            /\ (InLoop => /\ n = di - 1
                          /\ \A j \in 1..n :
                                session_metrics[j].session_end = departures[j])
            /\ (InLoop /\ n >= 1 /\ solution # <<>> /\ ~solution.raised =>
                   IF solution.Status = OPTIMAL
                   THEN /\ session_metrics[n].objval = Num(solution.ObjVal)
                        /\ session_metrics[n].gamma = Num(solution.gamma)
                   ELSE /\ isnan(session_metrics[n].objval)
                        /\ isnan(session_metrics[n].gamma))

\* a run with an optimal session of non-zero cost followed by an infeasible one
C4_Witness ==
    /\ entry # RUN_ALL
    /\ InLoop
    /\ Len(session_metrics) = 2
    /\ ~isnan(session_metrics[1].objval)
    /\ session_metrics[1].objval # Num(0)
    /\ isnan(session_metrics[2].objval)
    /\ solution.Status # OPTIMAL
    /\ total_cost = session_metrics[1].objval

\* every session of a returned run was solved to optimality
AllOptimal(res) ==
    \A j \in 1..Len(res.session_metrics) : ~isnan(res.session_metrics[j].objval)

\* C5 as stated: for sweep points i, j of one grid-capacity sweep with
\* Qg_max(i) <= Qg_max(j), the total cost run_sessions returned at j is at most
\* that at i, and so is the average shortfall fraction of the row.
C5_Monotone ==
    entry = GRID_EXP =>
        \A i, j \in 1..Len(results) :
            values[i] <= values[j] =>
                /\ returns[j].total_cost[1] <= returns[i].total_cost[1]
                /\ QuotLeq(results[j].avg_miss_fraction, results[i].avg_miss_fraction)

\* C5 amended: for sweep points i, j with Qg_max(i) <= Qg_max(j) at both of
\* which every session was solved to optimality, the total cost at j is at
\* most that at i.  (Nothing is said of the shortfall, nor of a dataset with a
\* session that is infeasible at the smaller capacity.)
C5_MonotoneCostWhenOptimal ==
    entry = GRID_EXP =>
        \A i, j \in 1..Len(returns) :
            (i <= Len(values) /\ j <= Len(values) /\ values[i] <= values[j]
             /\ AllOptimal(returns[i]) /\ AllOptimal(returns[j])) =>
                returns[j].total_cost[1] <= returns[i].total_cost[1]

\* a larger grid capacity has strictly lowered the cost of a dataset whose
\* sessions are all optimal at both capacities
C5_Witness ==
    /\ entry = GRID_EXP
    /\ Len(returns) = 2
    /\ values[1] < values[2]
    /\ Len(returns[1].session_metrics) >= 1
    /\ AllOptimal(returns[1])
    /\ AllOptimal(returns[2])
    /\ returns[2].total_cost[1] < returns[1].total_cost[1]

\* C6 as stated: a solver failure fails only its own sweep point, so a sweep
\* never ends on it with values of its list still unprocessed.
C6_SweepContinues ==
    (entry # RUN_ALL /\ pc = "raised" /\ err = "GurobiError") => k >= Len(values)

\* C7 as stated: on a dataset missing a required column run_sessions never
\* returns totals; it ends in a validation error before any session is solved.
C7_MissingColumnRejected ==
    (entry # RUN_ALL /\ DOMAIN data # AllColumns) =>
        /\ returns = <<>>
        /\ solution = <<>>
        /\ (pc = "raised" => err \in {"ValueError", "KeyError"})

\* the model of the slice last handed to build_model, under the current
\* parameters
CurrentModel == build_model(session_data, params)

\* run_sessions is in its loop and the slice last handed to build_model
\* passed validation
HasModel == InLoop /\ session_data # <<>> /\ DOMAIN session_data = AllColumns

\* C8 as stated: every point satisfying the built constraints has
\* x_t = X0 + sum of b_s over s <= t at every step t.
C8_SoCIntegral ==
    (entry # RUN_ALL /\ HasModel) =>
        \A p \in feasible_points(CurrentModel) :
            \A t \in 1..CurrentModel.T :
                p.x[t] = params.X0 + SumSeq(SubSeq(p.b, 1, t))

\* the slice has a disconnected step at a position after its first, up to t
ResetUpTo(m, t) == \E r \in 2..t : m.truck[r] = 0

\* C8 amended: every point satisfying the built constraints has
\* x_t = X0 + sum of b_s over s <= t at every step t up to which the slice has
\* no disconnected step after its first position; from the first such step on
\* the reset constraint x_t = 0 has dropped X0 and x_t = sum of b_s over s <= t.
C8_SoCIntegralWithReset ==
    (entry # RUN_ALL /\ HasModel) =>
        \A p \in feasible_points(CurrentModel) :
            \A t \in 1..CurrentModel.T :
                p.x[t] = (IF ResetUpTo(CurrentModel, t) THEN 0 ELSE params.X0)
                         + SumSeq(SubSeq(p.b, 1, t))

\* a session that starts with two disconnected steps and a charged battery has
\* been solved, and the truck charges in its connected step
C8_Witness ==
    /\ entry # RUN_ALL
    /\ HasModel
    /\ session_data[TRUCK] = <<0, 0, 1>>
    /\ params.X0 = 1
    /\ solution # <<>>
    /\ ~solution.raised
    /\ solution.Status = OPTIMAL
    /\ \E p \in feasible_points(CurrentModel) : p.b[3] = 1 /\ p.x = <<1, 0, 1>>

\* C9 as stated: on a complete dataset the grid-capacity sweep computes its
\* derived metrics for every swept value without a division by zero.
C9_NoZeroDivision ==
    (entry = GRID_EXP /\ DOMAIN data = AllColumns) => err # "ZeroDivisionError"

\* C10: no step of a sweep changes the caller's base_params or dataset.
C10_InputsUnchanged ==
    [][entry # RUN_ALL => (data' = data /\ base_params' = base_params)]_vars

\* a sweep has returned two rows for two different values
C10_Witness ==
    /\ entry # RUN_ALL
    /\ pc = "done"
    /\ Len(results) = 2
    /\ values[1] # values[2]
    /\ params # base_params

====
